---- MODULE Spec2Model ----
(***************************************************************************)
(* Content ingestion engine of news-scraper-app: the per-source run guard  *)
(* (_scraper_locks), the scheduled and manual runs, save_articles with its *)
(* change check and bounded re-extraction, and the article/profile store.  *)
(***************************************************************************)
EXTENDS Integers, Sequences, FiniteSets, TLC

(***************************************************************************)
(* Bounds of the model.                                                    *)
(***************************************************************************)
\* Longest candidate list an adapter returns in one run.
MaxList == 2
\* Last day the wall clock reaches.
MaxDay == 1
\* The clock counts fractions of a day: UnitsPerDay of them make a day.
UnitsPerDay == 2

(***************************************************************************)
(* Sources, jobs and threads.                                              *)
(***************************************************************************)
Sources == {"biziday", "adevarul", "facebook"}

\* The recurring interval jobs and the one-off warm-up jobs of the scheduler.
IntervalJobs == {"biziday_scraper", "adevarul_scraper"}
InitialJobs == {"biziday_initial", "adevarul_initial"}
NewsCallers == IntervalJobs \cup InitialJobs
\* Two request threads of the POST /scrape-facebook endpoint.
ManualCallers == {"fb_request_1", "fb_request_2"}
Callers == NewsCallers \cup ManualCallers
\* Threads executing get_scraper_status().
Probers == {"status_1", "status_2"}
NoHolder == "free"

SourceOf(c) ==
    CASE c \in {"biziday_scraper", "biziday_initial"} -> "biziday"
      [] c \in {"adevarul_scraper", "adevarul_initial"} -> "adevarul"
      [] OTHER -> "facebook"

\* The `source` argument save_articles receives from each run.
SourceLabel(c) == IF SourceOf(c) = "biziday" THEN "Biziday" ELSE "Adevarul"

(***************************************************************************)
(* Values.  A dict field of a candidate is a value, None, or missing.      *)
(* Timestamps are instants of the clock; text fields are named tokens.     *)
(***************************************************************************)
NONE == "None"
ABSENT == "absent"
NoneT == 0 - 1
AbsentT == 0 - 2
\* A timestamp string datetime.fromisoformat() rejects.
BadT == 0 - 3

\* len() of a content token.
ContentLen(x) ==
    CASE x = "A150" -> 150
      [] x = "B150" -> 150
      [] x = "A155" -> 155
      [] x = "A200" -> 200
      [] x = "F300" -> 300
      [] x = "A50" -> 50
      [] OTHER -> 0

\* Python truthiness of a text field: None, a missing key's default and "" are falsy.
Truthy(x) == x \notin {NONE, ABSENT, ""}
TruthyT(t) == t >= 0

\* dict.get(key, default): the default only when the key is missing.
Get(v, default) == IF v = ABSENT THEN default ELSE v
\* dict.get(key): None when the key is missing.
Get0(v) == IF v = ABSENT THEN NONE ELSE v

\* datetime.fromisoformat(...) inside try/except: None when the field is falsy
\* or malformed.
ParseTime(t) == IF t >= 0 THEN t ELSE NoneT

VARIABLES
    env,            \* what the environment may feed the engine (fixed by Init):
                    \*   [callers, probers, cands, max_list, fresh, metas, timeout_seconds]
    now,            \* wall clock, in units of 1/UnitsPerDay of a day
    scraper_locks,  \* _scraper_locks: source -> the thread holding the lock, or NoHolder
    pc,             \* caller -> its position in the run function
    ending,         \* caller -> how the run in progress ended (known in the finally clause)
    round,          \* history: per source, the callers granted / rejected since a caller
                    \*          last found the lock free
    probe,          \* prober -> its position in get_scraper_status(): [pc, i, status]
    db,             \* committed rows of news_articles, in insertion order
    profiles,       \* committed rows of facebook_user_profiles
    sess,           \* caller -> its db.session: [ins, upd]
    loop,           \* caller -> save_articles locals: [remaining, checked_count, seen]
    ext,            \* caller -> the extract_with_guaranteed_timeout call in progress
    worker          \* caller -> the extraction_thread of that call

vars == <<env, now, scraper_locks, pc, ending, round, probe, db, profiles, sess, loop,
          ext, worker>>

(***************************************************************************)
(* Configuration.                                                          *)
(***************************************************************************)
\* UPDATE_CHECK_CONFIG. max_checks_per_session and content_extraction_timeout
\* are configurable (the shipped values are 50 checks and 20 s); the model
\* instantiates them with MaxChecksPerSession and ExtractionTimeout.
MaxChecksPerSession == 1
ExtractionTimeout == 1
\* Longest deadline extract_with_guaranteed_timeout is called with, in seconds.
MaxDeadline == 5
max_article_age_days == 7
check_frequency_primary == 24
check_frequency_default == 72
UPDATE_CHECK_CONFIG ==
    [ check_frequency_hours |-> [primary |-> check_frequency_primary,
                                 default |-> check_frequency_default],
      max_article_age_days |-> max_article_age_days,
      max_checks_per_session |-> MaxChecksPerSession,
      enable_update_checks |-> TRUE,
      enable_content_refresh |-> TRUE,
      content_extraction_timeout |-> env.timeout_seconds ]

\* The extractor's clock ticks once per poll_interval (0.5 s).
TicksPerSecond == 2
PollTicks == 1
\* extraction_started.wait(timeout=5)
StartWaitSeconds == 5
\* min(content_extraction_timeout, 30)
TimeoutCap == 30
Min(a, b) == IF a < b THEN a ELSE b
HoursPerDay == 24

(***************************************************************************)
(* Change detector.                                                        *)
(***************************************************************************)
\* ensure_romania_timezone: None stays None; a timestamp keeps its instant.
ensure_romania_timezone(dt) == IF dt = NoneT THEN NoneT ELSE dt

\* str.strip() on the text tokens.
Strip(x) ==
    CASE x = "s1 " -> "s1"
      [] x = "t1 " -> "t1"
      [] OTHER -> x

\* str.lower() on the text tokens.
Lower(x) ==
    CASE x = "S1" -> "s1"
      [] OTHER -> x

\* difflib.SequenceMatcher(None, a, b).ratio(), in percent.
SimilarityPercent(a, b) ==
    IF a = b THEN 100
    ELSE IF {a, b} = {"s1", "s1x"} THEN 90
    ELSE 30

should_check_ignoring_age(existing, cand, today) ==
    IF ~UPDATE_CHECK_CONFIG.enable_update_checks THEN FALSE
    ELSE IF ~TruthyT(existing.updated_at) THEN TRUE
    ELSE LET hours_since_last_update ==
                 ((today - ensure_romania_timezone(existing.updated_at)) * HoursPerDay)
                     \div UnitsPerDay
             source_frequency ==
                 IF existing.source \in {"Adevarul", "Biziday"}
                 THEN UPDATE_CHECK_CONFIG.check_frequency_hours.primary
                 ELSE UPDATE_CHECK_CONFIG.check_frequency_hours.default
         IN  IF hours_since_last_update < source_frequency THEN FALSE ELSE TRUE
should_check_article_for_updates(existing, cand, today) ==
    IF ~UPDATE_CHECK_CONFIG.enable_update_checks THEN FALSE
    ELSE IF ~TruthyT(existing.updated_at) THEN TRUE
    ELSE IF /\ TruthyT(existing.published_at)
            /\ (today - ensure_romania_timezone(existing.published_at)) \div UnitsPerDay
                 > UPDATE_CHECK_CONFIG.max_article_age_days
         THEN FALSE
    ELSE LET hours_since_last_update ==
                 ((today - ensure_romania_timezone(existing.updated_at)) * HoursPerDay)
                     \div UnitsPerDay
             source_frequency ==
                 IF existing.source \in {"Adevarul", "Biziday"}
                 THEN UPDATE_CHECK_CONFIG.check_frequency_hours.primary
                 ELSE UPDATE_CHECK_CONFIG.check_frequency_hours.default
         IN  IF hours_since_last_update < source_frequency THEN FALSE ELSE TRUE

\* The comparison of lines 394-398 and 638-643.
NotOlderThanStored(new_updated_at, existing) ==
    /\ TruthyT(new_updated_at)
    /\ TruthyT(existing.updated_at)
    /\ ensure_romania_timezone(new_updated_at) >= ensure_romania_timezone(existing.updated_at)
NewerThanStored(new_updated_at, existing) ==
    /\ TruthyT(new_updated_at)
    /\ TruthyT(existing.updated_at)
    /\ ensure_romania_timezone(new_updated_at) > ensure_romania_timezone(existing.updated_at)

Abs(x) == IF x < 0 THEN 0 - x ELSE x

article_needs_update_ignoring_title(existing, cand, new_updated_at) ==
    \/ NewerThanStored(new_updated_at, existing)
    \/ TruthyT(new_updated_at) /\ ~TruthyT(existing.updated_at)
    \/ /\ Truthy(Get0(cand.content)) /\ Truthy(existing.content)
       /\ LET old_length == ContentLen(existing.content)
              new_length == ContentLen(cand.content)
          IN  old_length > 0 /\ Abs(new_length - old_length) * 100 > 5 * old_length
    \/ /\ Truthy(Get0(cand.summary)) /\ Truthy(existing.summary)
       /\ Strip(cand.summary) # Strip(existing.summary)
       /\ SimilarityPercent(Lower(Strip(existing.summary)), Lower(Strip(cand.summary))) < 80
article_needs_update(existing, cand, new_updated_at) ==
    \/ NewerThanStored(new_updated_at, existing)
    \/ TruthyT(new_updated_at) /\ ~TruthyT(existing.updated_at)
    \/ /\ Truthy(Get0(cand.content)) /\ Truthy(existing.content)
       /\ LET old_length == ContentLen(existing.content)
              new_length == ContentLen(cand.content)
          IN  old_length > 0 /\ Abs(new_length - old_length) * 100 > 5 * old_length
    \/ /\ Truthy(Get0(cand.summary)) /\ Truthy(existing.summary)
       /\ Strip(cand.summary) # Strip(existing.summary)
       /\ SimilarityPercent(Lower(Strip(existing.summary)), Lower(Strip(cand.summary))) < 80
    \/ /\ Truthy(Get0(cand.title)) /\ Truthy(existing.title)
       /\ Strip(cand.title) # Strip(existing.title)

\* generate_summary_from_content(fresh_content, 200)
generate_summary_from_content(x) ==
    CASE x = "F300" -> "sF"
      [] x = "A200" -> "sA"
      [] x = "A150" -> "sA"
      [] OTHER -> ""

\* len() of a summary token scraped from a listing: none, a short one, a long one.
SummaryLen(x) ==
    CASE x = "" -> 0
      [] x = "s0" -> 10
      [] OTHER -> 60

\* biziday_scraper.py:222-229 and adevarul_scraper.py:235-242: the summary of
\* the candidate an adapter emits, from the content it extracted, else from
\* the summary of the listing, else from the title.
final_summary_without_title(title, summary, full_content) ==
    IF Truthy(full_content) /\ ContentLen(full_content) > 100
    THEN generate_summary_from_content(full_content)
    ELSE summary
final_summary(title, summary, full_content) ==
    IF Truthy(full_content) /\ ContentLen(full_content) > 100
    THEN generate_summary_from_content(full_content)
    ELSE IF Truthy(summary) /\ SummaryLen(summary) > 20 THEN summary ELSE title

(***************************************************************************)
(* The store: news_articles rows and the callers' sessions.                *)
(***************************************************************************)
EmptySess == [ins |-> <<>>, upd |-> <<>>]
NoLoop == [remaining |-> 0, checked_count |-> 0, seen |-> {}]
NoExt == [active |-> FALSE]
NoWorker == "none"

MinOf(S) == CHOOSE x \in S : \A y \in S : x <= y

\* NewsArticle.query.filter_by(link=l).first(), seen from the session of c:
\* the committed rows, then the rows this session has added (autoflush).
Existing(c, l) ==
    LET dbIds == {i \in 1..Len(db) : db[i].link = l}
        insIds == {j \in 1..Len(sess[c].ins) : sess[c].ins[j].link = l}
    IN  IF l = NONE THEN [kind |-> "none", id |-> 0]
        ELSE IF dbIds # {} THEN [kind |-> "db", id |-> MinOf(dbIds)]
        ELSE IF insIds # {} THEN [kind |-> "ins", id |-> MinOf(insIds)]
        ELSE [kind |-> "none", id |-> 0]

\* The attributes of the object the query returned.
ExistingRow(c, e) ==
    IF e.kind = "ins" THEN sess[c].ins[e.id]
    ELSE IF e.id \in DOMAIN sess[c].upd THEN sess[c].upd[e.id]
    ELSE db[e.id]

\* Column updated_at: default=ro_datetime on INSERT, onupdate=ro_datetime on an
\* UPDATE that does not set it (models.py:31).
WithInsertDefault(row, today) ==
    IF row.updated_at = NoneT THEN [row EXCEPT !.updated_at = today] ELSE row
WithOnUpdate(old, new, today) ==
    IF new # old /\ new.updated_at = old.updated_at
    THEN [new EXCEPT !.updated_at = today]
    ELSE new

\* Assigning attributes of the object the query returned.
SessWrite(c, e, new) ==
    LET w == WithOnUpdate(ExistingRow(c, e), new, now)
    IN  IF e.kind = "ins"
        THEN [sess[c] EXCEPT !.ins = [sess[c].ins EXCEPT ![e.id] = w]]
        ELSE [sess[c] EXCEPT !.upd = (e.id :> w) @@ sess[c].upd]

\* db.session.add(article)
SessAddNothing(c, row) == sess[c]
SessAdd(c, row) == [sess[c] EXCEPT !.ins = Append(sess[c].ins, WithInsertDefault(row, now))]

\* A flush raises IntegrityError on a NULL in a NOT NULL column (title,
\* summary, link) and on a link some committed row already has (unique=True).
ViolatesNotNull(row) == row.title = NONE \/ row.summary = NONE \/ row.link = NONE
LinkNeverTaken(row) == FALSE
LinkTaken(row) == \E i \in 1..Len(db) : db[i].link = row.link
FlushFails(c) ==
    \/ \E j \in 1..Len(sess[c].ins) :
          ViolatesNotNull(sess[c].ins[j]) \/ LinkTaken(sess[c].ins[j])
    \/ \E i \in DOMAIN sess[c].upd : ViolatesNotNull(sess[c].upd[i])

\* The table after the session's UPDATEs and INSERTs are committed.
Committed(c) ==
    [i \in 1..Len(db) |-> IF i \in DOMAIN sess[c].upd THEN sess[c].upd[i] ELSE db[i]]
        \o sess[c].ins

\* Lines 341-371: the NewsArticle built from a candidate nobody stored yet.
NewArticle(cand, source) ==
    LET p == ParseTime(cand.published_at)
    IN  [ link |-> cand.link,
          title |-> cand.title,
          summary |-> cand.summary,
          content |-> Get0(cand.content),
          source |-> source,
          published_at |-> IF TruthyT(p) THEN p ELSE ParseTime(cand.timestamp),
          updated_at |-> ParseTime(cand.updated_at) ]

\* Lines 482-484, 519-521, 525-527, 530-532: the update from the candidate's own fields.
BasicUpdateKeepingTimestamp(existing, cand, new_updated_at) ==
    [existing EXCEPT !.summary = Get(cand.summary, existing.summary),
                     !.content = Get(cand.content, existing.content)]
BasicUpdate(existing, cand, new_updated_at) ==
    [existing EXCEPT !.updated_at = new_updated_at,
                     !.summary = Get(cand.summary, existing.summary),
                     !.content = Get(cand.content, existing.content)]

NoMeta == 0 - 4
EmptyResult == [content |-> NONE, metadata |-> NoMeta, error |-> NONE]

\* Line 478: the branch taken on the extractor's result.
ExtractionFailedByContent(res) == ~Truthy(res.content)
ExtractionFailed(res) == Truthy(res.error)

\* Lines 478-514: the fields written after extract_with_guaranteed_timeout returned.
ApplyExtraction(existing, cand, new_updated_at, res) ==
    IF ExtractionFailed(res) THEN BasicUpdate(existing, cand, new_updated_at)
    ELSE LET fresh_content == res.content
             fresh_updated == IF res.metadata = NoMeta THEN NoneT ELSE res.metadata
             r1 == IF Truthy(fresh_content)
                   THEN [existing EXCEPT
                           !.content = fresh_content,
                           !.summary = IF ContentLen(fresh_content) > 100
                                       THEN generate_summary_from_content(fresh_content)
                                       ELSE existing.summary]
                   ELSE [existing EXCEPT
                           !.summary = Get(cand.summary, existing.summary),
                           !.content = Get(cand.content, existing.content)]
         IN  [r1 EXCEPT !.updated_at =
                 IF fresh_updated = NoneT THEN new_updated_at
                 ELSE IF ParseTime(fresh_updated) = NoneT THEN new_updated_at
                 ELSE ParseTime(fresh_updated)]

(***************************************************************************)
(* The run guard.                                                          *)
(***************************************************************************)
\* lock.acquire(blocking=False) succeeds iff nobody holds the lock.
LockFreeAlways(s) == TRUE
LockFree(s) == scraper_locks[s] = NoHolder

EmptyRound == [granted |-> {}, rejected |-> {}]

\* Where a caller is once its function returned: a 'date' job fires once.
ReturnedOnce(c) == IF c \in NewsCallers THEN "done" ELSE "idle"
Returned(c) == IF c \in InitialJobs THEN "done" ELSE "idle"

\* The try ... finally of lines 23-70, 79-124 and 138-298: whichever way the
\* body is left (a return, an except clause), the finally clause runs next.
AfterBodyNoFinally(c, o) ==
    IF o \in {"timeout", "exception"} THEN Returned(c) ELSE "finally"
AfterBody(c, o) == "finally"

\* The positions between a granted acquire and the release of the finally clause.
GuardedPcs == {"input", "selenium", "script", "adapter", "loop", "startwait", "wait",
               "xret", "finally"}
InGuard(c) == pc[c] \in GuardedPcs

\* Lines 19-21, 75-77, 134-136: the non-blocking acquire that opens every run.
TryBegin(c) ==
    LET s == SourceOf(c) IN
    /\ c \in env.callers
    /\ pc[c] = "idle"
    /\ IF LockFree(s)
       THEN /\ scraper_locks' = [scraper_locks EXCEPT ![s] = c]
            /\ pc' = [pc EXCEPT ![c] = IF c \in ManualCallers THEN "input" ELSE "adapter"]
            /\ round' = IF scraper_locks[s] \in Callers
                        THEN [round EXCEPT ![s].granted = @ \cup {c}]
                        ELSE [round EXCEPT ![s] = [granted |-> {c}, rejected |-> {}]]
            /\ ending' = ending
       ELSE /\ scraper_locks' = scraper_locks
            /\ pc' = [pc EXCEPT ![c] = IF c \in ManualCallers THEN "rejected"
                                       ELSE Returned(c)]
            /\ round' = IF scraper_locks[s] \in Callers
                        THEN [round EXCEPT ![s].rejected = @ \cup {c}]
                        ELSE round
            /\ ending' = [ending EXCEPT ![c] = IF c \in ManualCallers THEN "busy"
                                               ELSE "none"]
    /\ UNCHANGED <<env, now, probe, db, profiles, sess, loop, ext, worker>>

\* Lines 68-70, 122-124, 296-298: the finally clause.
Release(c) ==
    /\ pc[c] = "finally"
    /\ scraper_locks' = [scraper_locks EXCEPT ![SourceOf(c)] = NoHolder]
    /\ round' = [round EXCEPT ![SourceOf(c)] = EmptyRound]
    /\ pc' = [pc EXCEPT ![c] = Returned(c)]
    /\ ending' = [ending EXCEPT ![c] = "none"]
    /\ loop' = IF c \in NewsCallers THEN [loop EXCEPT ![c] = NoLoop] ELSE loop
    /\ UNCHANGED <<env, now, probe, db, profiles, sess, ext, worker>>

\* Line 136: the rejected manual request returns its error result.
ReturnRejectedReleasing(c) ==
    /\ pc[c] = "rejected"
    /\ pc' = [pc EXCEPT ![c] = "idle"]
    /\ ending' = [ending EXCEPT ![c] = "none"]
    /\ scraper_locks' = [scraper_locks EXCEPT ![SourceOf(c)] = NoHolder]
    /\ UNCHANGED <<env, now, round, probe, db, profiles, sess, loop, ext, worker>>
ReturnRejected(c) ==
    /\ pc[c] = "rejected"
    /\ pc' = [pc EXCEPT ![c] = "idle"]
    /\ ending' = [ending EXCEPT ![c] = "none"]
    /\ UNCHANGED <<env, now, scraper_locks, round, probe, db, profiles, sess, loop, ext,
                   worker>>

\* _scraper_locks.items() iterates in insertion order.
LockOrder == <<"biziday", "adevarul", "facebook">>
NoProbe == [pc |-> "idle", i |-> 1, status |-> <<>>]

\* Lines 300-312: get_scraper_status() probes each lock by acquiring it.
ProbeStart(q) ==
    /\ q \in env.probers
    /\ probe[q].pc = "idle"
    /\ probe' = [probe EXCEPT ![q] = [pc |-> "next", i |-> 1, status |-> <<>>]]
    /\ UNCHANGED <<env, now, scraper_locks, pc, ending, round, db, profiles, sess, loop,
                   ext, worker>>

\* Line 305: lock.acquire(blocking=False); lines 309-311 when it fails; line 312
\* once the loop is over.
ProbeAcquire(q) ==
    /\ probe[q].pc = "next"
    /\ IF probe[q].i > Len(LockOrder)
       THEN /\ probe' = [probe EXCEPT ![q].pc = "idle"]
            /\ scraper_locks' = scraper_locks
       ELSE LET s == LockOrder[probe[q].i] IN
            IF LockFree(s)
            THEN /\ scraper_locks' = [scraper_locks EXCEPT ![s] = q]
                 /\ probe' = [probe EXCEPT ![q].pc = "held"]
            ELSE /\ scraper_locks' = scraper_locks
                 /\ probe' = [probe EXCEPT ![q].i = @ + 1,
                                           ![q].status = (s :> "running") @@ @]
    /\ UNCHANGED <<env, now, pc, ending, round, db, profiles, sess, loop, ext, worker>>

\* Lines 307-308: lock.release(), status 'idle'.
ProbeRelease(q) ==
    /\ probe[q].pc = "held"
    /\ LET s == LockOrder[probe[q].i] IN
         /\ scraper_locks' = [scraper_locks EXCEPT ![s] = NoHolder]
         /\ probe' = [probe EXCEPT ![q].pc = "next", ![q].i = @ + 1,
                                   ![q].status = (s :> "idle") @@ @]
    /\ UNCHANGED <<env, now, pc, ending, round, db, profiles, sess, loop, ext, worker>>

(***************************************************************************)
(* run_biziday_scraper / run_adevarul_scraper.                             *)
(***************************************************************************)
\* How the adapter step of lines 30-63 can end.
AdapterFailures == {"script_missing", "timeout", "exception", "exit_code", "no_output",
                    "json_error", "not_list"}

\* Lines 26-63 (85-117): the script check, subprocess.run and json.loads.
\* A list is handed to save_articles; its elements are read one by one.
RunAdapter(c) ==
    /\ pc[c] = "adapter"
    /\ \/ \E o \in AdapterFailures :
            /\ pc' = [pc EXCEPT ![c] = AfterBody(c, o)]
            /\ ending' = [ending EXCEPT ![c] = o]
            /\ loop' = loop
       \/ \E n \in 0..env.max_list :
            /\ pc' = [pc EXCEPT ![c] = "loop"]
            /\ ending' = [ending EXCEPT ![c] = "none"]
            /\ loop' = [loop EXCEPT ![c] = [remaining |-> n, checked_count |-> 0,
                                            seen |-> {}]]
    /\ UNCHANGED <<env, now, scraper_locks, round, probe, db, profiles, sess, ext, worker>>

\* Lines 545-547: the except clause of save_articles; the run then reaches its
\* finally clause.
SaveFailedKeepsInserts(c, seen) ==
    /\ sess' = [sess EXCEPT ![c] = EmptySess]
    /\ pc' = [pc EXCEPT ![c] = AfterBody(c, "save_failed")]
    /\ ending' = [ending EXCEPT ![c] = "save_failed"]
    /\ loop' = [loop EXCEPT ![c] = [NoLoop EXCEPT !.seen = seen]]
    /\ db' = db \o sess[c].ins
SaveFailed(c, seen) ==
    /\ sess' = [sess EXCEPT ![c] = EmptySess]
    /\ pc' = [pc EXCEPT ![c] = AfterBody(c, "save_failed")]
    /\ ending' = [ending EXCEPT ![c] = "save_failed"]
    /\ loop' = [loop EXCEPT ![c] = [NoLoop EXCEPT !.seen = seen]]
    /\ db' = db

\* Line 378: the per-session cap and the eligibility gate.
MayCheckOffByOne(c, existing, cand) ==
    /\ loop[c].checked_count <= UPDATE_CHECK_CONFIG.max_checks_per_session
    /\ should_check_article_for_updates(existing, cand, now)
MayCheck(c, existing, cand) ==
    /\ loop[c].checked_count < UPDATE_CHECK_CONFIG.max_checks_per_session
    /\ should_check_article_for_updates(existing, cand, now)

\* Lines 394-400: the update needs the extractor.
NeedsReextract(existing, new_updated_at) ==
    /\ NewerThanStored(new_updated_at, existing)
    /\ UPDATE_CHECK_CONFIG.enable_content_refresh

\* Lines 394-398 and 528: both timestamps are there and the candidate's is not
\* newer, so neither the re-extraction branch nor the else branch of line 528
\* is taken and no attribute is assigned.
ComparedNotNewer(existing, new_updated_at) ==
    /\ TruthyT(new_updated_at)
    /\ TruthyT(existing.updated_at)
    /\ ~NewerThanStored(new_updated_at, existing)

\* thread.start() can raise (lines 437-438 inside the try of line 404).
StartOutcomes == {"started", "cannot_start"}

\* Lines 335-400 and 522-535: one iteration of the loop over articles_data, up
\* to the call of extract_with_guaranteed_timeout.
ProcessCandidate(c) ==
    /\ pc[c] = "loop"
    /\ loop[c].remaining > 0
    /\ \E cand \in env.cands :
         LET e == Existing(c, cand.link)
             rest == [loop[c] EXCEPT !.remaining = @ - 1,
                                     !.seen = @ \cup ({cand.link} \ {ABSENT})]
         IN
         IF cand.link = ABSENT \/ FlushFails(c)
         THEN SaveFailed(c, loop[c].seen \cup ({cand.link} \ {ABSENT}))
              /\ UNCHANGED <<ext, worker>>
         ELSE IF e.kind = "none"
         THEN IF cand.title = ABSENT \/ cand.summary = ABSENT
              THEN SaveFailed(c, rest.seen) /\ UNCHANGED <<ext, worker>>
              ELSE /\ sess' = [sess EXCEPT ![c] = SessAdd(c, NewArticle(cand, SourceLabel(c)))]
                   /\ loop' = [loop EXCEPT ![c] = rest]
                   /\ UNCHANGED <<pc, ending, db, ext, worker>>
         ELSE LET existing == ExistingRow(c, e)
                  new_updated_at == ParseTime(cand.updated_at)
              IN
              IF ~MayCheck(c, existing, cand)
              THEN /\ loop' = [loop EXCEPT ![c] = rest]
                   /\ UNCHANGED <<pc, ending, db, sess, ext, worker>>
              ELSE IF ~article_needs_update(existing, cand, new_updated_at)
              THEN /\ loop' = [loop EXCEPT ![c] = [rest EXCEPT !.checked_count = @ + 1]]
                   /\ UNCHANGED <<pc, ending, db, sess, ext, worker>>
              ELSE IF ComparedNotNewer(existing, new_updated_at)
              THEN /\ loop' = [loop EXCEPT ![c] = [rest EXCEPT !.checked_count = @ + 1]]
                   /\ UNCHANGED <<pc, ending, db, sess, ext, worker>>
              ELSE IF ~NeedsReextract(existing, new_updated_at)
              THEN /\ loop' = [loop EXCEPT ![c] = [rest EXCEPT !.checked_count = @ + 1]]
                   /\ sess' = [sess EXCEPT ![c] =
                                 SessWrite(c, e, BasicUpdate(existing, cand, new_updated_at))]
                   /\ UNCHANGED <<pc, ending, db, ext, worker>>
              ELSE \E o \in StartOutcomes :
                   /\ loop' = [loop EXCEPT ![c] = [rest EXCEPT !.checked_count = @ + 1]]
                   /\ IF o = "cannot_start"
                      THEN /\ sess' = [sess EXCEPT ![c] =
                                 SessWrite(c, e, BasicUpdate(existing, cand, new_updated_at))]
                           /\ UNCHANGED <<pc, ext, worker>>
                      ELSE /\ ext' = [ext EXCEPT ![c] =
                                 [active |-> TRUE, cand |-> cand, target |-> e,
                                  new_updated_at |-> new_updated_at,
                                  timeout_ticks |->
                                      Min(UPDATE_CHECK_CONFIG.content_extraction_timeout,
                                          TimeoutCap) * TicksPerSecond,
                                  clk |-> 0, start_time |-> 0, elapsed |-> 0,
                                  wake |-> StartWaitSeconds * TicksPerSecond,
                                  started |-> FALSE, complete |-> FALSE,
                                  timed_out |-> FALSE, result |-> EmptyResult]]
                           /\ worker' = [worker EXCEPT ![c] = "spawned"]
                           /\ pc' = [pc EXCEPT ![c] = "startwait"]
                           /\ sess' = sess
                   /\ UNCHANGED <<ending, db>>
    /\ UNCHANGED <<env, now, scraper_locks, round, probe, profiles>>

\* Line 538, db.session.commit(), and lines 545-547 when it raises: the flush
\* can violate a constraint, and the commit itself can fail.
Commit(c) ==
    /\ pc[c] = "loop"
    /\ loop[c].remaining = 0
    /\ IF FlushFails(c)
       THEN SaveFailed(c, loop[c].seen)
       ELSE \/ /\ db' = Committed(c)
               /\ sess' = [sess EXCEPT ![c] = EmptySess]
               /\ pc' = [pc EXCEPT ![c] = AfterBody(c, "committed")]
               /\ ending' = [ending EXCEPT ![c] = "committed"]
               /\ loop' = [loop EXCEPT ![c] = [NoLoop EXCEPT !.seen = loop[c].seen]]
            \/ SaveFailed(c, loop[c].seen)
    /\ UNCHANGED <<env, now, scraper_locks, round, probe, profiles, ext, worker>>

(***************************************************************************)
(* extract_with_guaranteed_timeout and its extraction_thread.              *)
(***************************************************************************)
\* Line 458: the deadline test on the elapsed time read before the wait.
DeadlinePassedStrict(x) == x.elapsed > x.timeout_ticks
DeadlinePassed(x) == x.elapsed >= x.timeout_ticks

\* Lines 441-447: extraction_started.wait(timeout=5), then start_time.
StartWait(c) ==
    /\ pc[c] = "startwait"
    /\ LET x == ext[c] IN
       IF x.started
       THEN /\ ext' = [ext EXCEPT ![c] = [x EXCEPT !.start_time = x.clk, !.elapsed = 0,
                                                   !.wake = x.clk + PollTicks]]
            /\ pc' = [pc EXCEPT ![c] = "wait"]
       ELSE /\ x.clk >= x.wake
            /\ ext' = [ext EXCEPT ![c] = [x EXCEPT !.result.error = "not_started"]]
            /\ pc' = [pc EXCEPT ![c] = "xret"]
    /\ UNCHANGED <<env, now, scraper_locks, ending, round, probe, db, profiles, sess, loop,
                   worker>>

\* Lines 449-471: one turn of the polling loop: extraction_complete.wait(0.5)
\* returns, then the deadline test on the elapsed time read before the wait.
PollWait(c) ==
    /\ pc[c] = "wait"
    /\ LET x == ext[c] IN
       IF x.complete
       THEN /\ pc' = [pc EXCEPT ![c] = "xret"]
            /\ ext' = ext
       ELSE /\ x.clk >= x.wake
            /\ IF DeadlinePassed(x)
               THEN /\ ext' = [ext EXCEPT ![c] =
                          [x EXCEPT !.timed_out = TRUE,
                                    !.result = [content |-> NONE, metadata |-> NoMeta,
                                                error |-> "timeout"]]]
                    /\ pc' = [pc EXCEPT ![c] = "xret"]
               ELSE /\ ext' = [ext EXCEPT ![c] =
                          [x EXCEPT !.elapsed = x.clk - x.start_time,
                                    !.wake = x.clk + PollTicks]]
                    /\ pc' = pc
    /\ UNCHANGED <<env, now, scraper_locks, ending, round, probe, db, profiles, sess, loop,
                   worker>>

\* Time passes for a caller blocked in Event.wait(timeout): the event is not
\* set and the clock reaches the end of the wait.
Tick(c) ==
    /\ \/ pc[c] = "startwait" /\ ~ext[c].started
       \/ pc[c] = "wait" /\ ~ext[c].complete
    /\ ext[c].clk < ext[c].wake
    /\ ext' = [ext EXCEPT ![c].clk = ext[c].wake]
    /\ UNCHANGED <<env, now, scraper_locks, pc, ending, round, probe, db, profiles, sess,
                   loop, worker>>

\* Line 421: extraction_started.set()
WorkerStart(c) ==
    /\ worker[c] = "spawned"
    /\ ext' = [ext EXCEPT ![c].started = TRUE]
    /\ worker' = [worker EXCEPT ![c] = "fetch"]
    /\ UNCHANGED <<env, now, scraper_locks, pc, ending, round, probe, db, profiles, sess,
                   loop>>

\* Line 425 (and 431-432): the fetch ends and its value is stored in the dict
\* the name `result` is bound to at that moment.
WorkerFetch(c) ==
    /\ worker[c] = "fetch"
    /\ \/ \E content \in env.fresh :
            /\ ext' = [ext EXCEPT ![c].result.content = content]
            /\ worker' = [worker EXCEPT ![c] = "meta"]
       \/ /\ ext' = [ext EXCEPT ![c].result.error = "extraction_error"]
          /\ worker' = [worker EXCEPT ![c] = "finish"]
    /\ UNCHANGED <<env, now, scraper_locks, pc, ending, round, probe, db, profiles, sess,
                   loop>>

\* Lines 427-429 (and 431-432): the metadata fetch, made when the dict bound
\* to `result` holds content.
WorkerMeta(c) ==
    /\ worker[c] = "meta"
    /\ IF Truthy(ext[c].result.content)
       THEN \/ \E m \in env.metas : ext' = [ext EXCEPT ![c].result.metadata = m]
            \/ ext' = [ext EXCEPT ![c].result.error = "extraction_error"]
       ELSE ext' = ext
    /\ worker' = [worker EXCEPT ![c] = "finish"]
    /\ UNCHANGED <<env, now, scraper_locks, pc, ending, round, probe, db, profiles, sess,
                   loop>>

\* Lines 433-434: extraction_complete.set()
WorkerFinish(c) ==
    /\ worker[c] = "finish"
    /\ ext' = [ext EXCEPT ![c].complete = TRUE]
    /\ worker' = [worker EXCEPT ![c] = "done"]
    /\ UNCHANGED <<env, now, scraper_locks, pc, ending, round, probe, db, profiles, sess,
                   loop>>

\* Lines 476-535: the extractor returned; its result decides the fields
\* written. An abandoned worker keeps the dict, which nothing reads any more.
ApplyResult(c) ==
    /\ pc[c] = "xret"
    /\ LET x == ext[c]
           existing == ExistingRow(c, x.target)
       IN  sess' = [sess EXCEPT ![c] =
               SessWrite(c, x.target,
                         ApplyExtraction(existing, x.cand, x.new_updated_at, x.result))]
    /\ pc' = [pc EXCEPT ![c] = "loop"]
    /\ ext' = [ext EXCEPT ![c] = NoExt]
    /\ worker' = [worker EXCEPT ![c] = NoWorker]
    /\ UNCHANGED <<env, now, scraper_locks, ending, round, probe, db, profiles, loop>>

\* The wall clock, read again a day later.
AdvanceTime ==
    /\ now < MaxDay * UnitsPerDay
    /\ now' = now + UnitsPerDay
    /\ UNCHANGED <<env, scraper_locks, pc, ending, round, probe, db, profiles, sess, loop,
                   ext, worker>>

(***************************************************************************)
(* run_facebook_scraper.                                                   *)
(***************************************************************************)
ProfileUrls == {"p1"}
ProfileData == {"d1", "d2"}

\* FacebookUserProfile.query.filter_by(profile_url=u).first()
ProfileIds(u) == {i \in 1..Len(profiles) : profiles[i].profile_url = u}

\* Lines 171-198 and 236-262: update_facebook_profile on an existing row,
\* save_facebook_profile otherwise. Both commit and swallow a failed commit;
\* the result is what the caller returns.
Persist(c, u, d, ok) ==
    IF ProfileIds(u) # {}
    THEN LET i == MinOf(ProfileIds(u))
             updated == profiles[i].data # d
         IN  /\ profiles' = IF updated /\ ok
                            THEN [profiles EXCEPT ![i].data = d]
                            ELSE profiles
             /\ ending' = [ending EXCEPT ![c] =
                              IF updated /\ ok THEN "success_updated"
                              ELSE "success_refreshed"]
    ELSE /\ profiles' = IF ok THEN Append(profiles, [profile_url |-> u, data |-> d])
                        ELSE profiles
         /\ ending' = [ending EXCEPT ![c] = "success_created"]

\* Lines 139-141: the empty input.
CheckInput(c) ==
    /\ pc[c] = "input"
    /\ \E profile_input \in {"", "p1"} :
         IF profile_input = ""
         THEN /\ pc' = [pc EXCEPT ![c] = AfterBody(c, "no_input")]
              /\ ending' = [ending EXCEPT ![c] = "no_input"]
         ELSE /\ pc' = [pc EXCEPT ![c] = "selenium"]
              /\ ending' = ending
    /\ UNCHANGED <<env, now, scraper_locks, round, probe, db, profiles, sess, loop, ext,
                   worker>>

SeleniumOutcomes == {"data", "error_record", "no_data", "import_error", "exception"}

\* Lines 146-207: the Selenium scraper.
RunSelenium(c) ==
    /\ pc[c] = "selenium"
    /\ \E o \in SeleniumOutcomes :
         CASE o = "data" ->
                \E u \in ProfileUrls, d \in ProfileData, ok \in BOOLEAN :
                   /\ Persist(c, u, d, ok)
                   /\ pc' = [pc EXCEPT ![c] = AfterBody(c, "data")]
           [] o \in {"error_record", "no_data"} ->
                /\ ending' = [ending EXCEPT ![c] = "selenium_failed"]
                /\ pc' = [pc EXCEPT ![c] = AfterBody(c, "selenium_failed")]
                /\ profiles' = profiles
           [] OTHER ->
                /\ pc' = [pc EXCEPT ![c] = "script"]
                /\ UNCHANGED <<ending, profiles>>
    /\ UNCHANGED <<env, now, scraper_locks, round, probe, db, sess, loop, ext, worker>>

ScriptFailures == {"script_missing", "exit_code", "no_output", "json_error",
                   "error_record", "timeout", "exception"}

\* Lines 209-290: the script-based scraper.
RunScript(c) ==
    /\ pc[c] = "script"
    /\ \/ \E o \in ScriptFailures :
            /\ ending' = [ending EXCEPT ![c] = o]
            /\ profiles' = profiles
            /\ pc' = [pc EXCEPT ![c] = AfterBody(c, o)]
       \/ \E u \in ProfileUrls, d \in ProfileData, ok \in BOOLEAN :
            /\ Persist(c, u, d, ok)
            /\ pc' = [pc EXCEPT ![c] = AfterBody(c, "data")]
    /\ UNCHANGED <<env, now, scraper_locks, round, probe, db, sess, loop, ext, worker>>

(***************************************************************************)
(* The environments and the specifications.                                *)
(***************************************************************************)
Cand(l, t, s, c, u) ==
    [link |-> l, title |-> t, summary |-> s, content |-> c, published_at |-> NoneT,
     timestamp |-> AbsentT, updated_at |-> u]

\* The environments of Spec: both jobs of one news source, or both manual
\* request threads, with or without a status thread beside them. One news
\* source serves an article that never changes, the other an article that is
\* first stored and later reported as modified.
GuardCands == {Cand("l1", "t1", "s1", "A150", u) : u \in {0, 1}}
GuardEnv(callers, probers, cands) ==
    [callers |-> callers, probers |-> probers, cands |-> cands, max_list |-> 1,
     fresh |-> {"F300"}, metas |-> {NoneT}, timeout_seconds |-> ExtractionTimeout]
GuardEnvs ==
    {GuardEnv({"biziday_scraper", "biziday_initial"}, {"status_1"},
              {Cand("l1", "t1", "s1", "A150", NoneT)}),
     GuardEnv({"adevarul_scraper", "adevarul_initial"}, {}, GuardCands),
     GuardEnv(ManualCallers, {"status_1"}, {})}

\* The environments of SpecStore. One news source over two links, whose
\* candidates carry no content or content of two lengths, lack a link or a
\* title, and report no updated_at ...
StoreCands ==
    {Cand(l, "t1", "s1", c, NoneT) : l \in {"l1", "l2"}, c \in {NONE, "A150", "A200"}}
    \cup {Cand(ABSENT, "t1", "s1", "A150", NoneT), Cand("l2", NONE, "s1", "A150", NoneT)}
StoreEnv ==
    [callers |-> {"biziday_scraper"}, probers |-> {}, cands |-> StoreCands,
     max_list |-> MaxList, fresh |-> {}, metas |-> {},
     timeout_seconds |-> ExtractionTimeout]
\* ... or one news source over one link, whose candidates report no, an old
\* or a new updated_at, so that the stored article is re-extracted ...
RefreshCands ==
    {Cand("l1", "t1", "s1", c, u) : c \in {NONE, "A150", "A200"}, u \in {NoneT, 0, 1}}
RefreshEnv ==
    [callers |-> {"biziday_scraper"}, probers |-> {}, cands |-> RefreshCands,
     max_list |-> MaxList, fresh |-> {NONE, "F300"}, metas |-> {NoneT, 1, BadT},
     timeout_seconds |-> ExtractionTimeout]
\* ... or runs of both news sources at once over one link ...
CrossCands == {Cand("l1", "t1", "s1", c, NoneT) : c \in {NONE, "A150"}}
CrossEnv ==
    [callers |-> {"biziday_scraper", "adevarul_scraper"}, probers |-> {},
     cands |-> CrossCands, max_list |-> MaxList, fresh |-> {}, metas |-> {},
     timeout_seconds |-> ExtractionTimeout]
\* ... or the manual requests.
ManualEnv ==
    [callers |-> ManualCallers, probers |-> {}, cands |-> {}, max_list |-> 0,
     fresh |-> {}, metas |-> {}, timeout_seconds |-> ExtractionTimeout]

\* The environments of SpecExtract: one news run whose extractor is given each
\* deadline up to MaxDeadline seconds.
ExtractEnvs ==
    {[callers |-> {"biziday_scraper"}, probers |-> {}, cands |-> GuardCands,
      max_list |-> 1, fresh |-> {NONE, "F300"}, metas |-> {NoneT},
      timeout_seconds |-> d] : d \in 1..MaxDeadline}

InitWith(e) ==
    /\ env = e
    /\ now = 0
    /\ scraper_locks = [s \in Sources |-> NoHolder]
    /\ pc = [c \in Callers |-> "idle"]
    /\ ending = [c \in Callers |-> "none"]
    /\ round = [s \in Sources |-> EmptyRound]
    /\ probe = [q \in Probers |-> NoProbe]
    /\ db = <<>>
    /\ profiles = <<>>
    /\ sess = [c \in NewsCallers |-> EmptySess]
    /\ loop = [c \in NewsCallers |-> NoLoop]
    /\ ext = [c \in NewsCallers |-> NoExt]
    /\ worker = [c \in NewsCallers |-> NoWorker]

GuardStep(c) == TryBegin(c) \/ Release(c)
NewsStep(c) ==
    \/ RunAdapter(c) \/ ProcessCandidate(c) \/ Commit(c)
    \/ StartWait(c) \/ PollWait(c) \/ Tick(c) \/ ApplyResult(c)
    \/ WorkerStart(c) \/ WorkerFetch(c) \/ WorkerMeta(c) \/ WorkerFinish(c)
FacebookStep(c) == ReturnRejected(c) \/ CheckInput(c) \/ RunSelenium(c) \/ RunScript(c)
ProbeStep(q) == ProbeStart(q) \/ ProbeAcquire(q) \/ ProbeRelease(q)

Init == \E e \in GuardEnvs : InitWith(e)

Next ==
    \/ \E c \in Callers : GuardStep(c)
    \/ \E c \in NewsCallers : NewsStep(c)
    \/ \E c \in ManualCallers : FacebookStep(c)
    \/ \E q \in Probers : ProbeStep(q)
    \/ AdvanceTime

Spec == Init /\ [][Next]_vars

InitStore == \E e \in {StoreEnv, RefreshEnv, CrossEnv, ManualEnv} : InitWith(e)

NextStore ==
    \/ \E c \in Callers : GuardStep(c)
    \/ \E c \in NewsCallers : NewsStep(c)
    \/ \E c \in ManualCallers : FacebookStep(c)
    \/ AdvanceTime

SpecStore == InitStore /\ [][NextStore]_vars

InitExtract == \E e \in ExtractEnvs : InitWith(e)

NextExtract ==
    \/ \E c \in NewsCallers : GuardStep(c)
    \/ \E c \in NewsCallers : NewsStep(c)
    \/ AdvanceTime

SpecExtract == InitExtract /\ [][NextExtract]_vars

(***************************************************************************)
(* The run guard under fair scheduling: a thread inside a run keeps        *)
(* executing (the subprocess calls carry a timeout, the waits of the       *)
(* extractor time out), the worker threads and new triggers need not.      *)
(***************************************************************************)
NewsRun(c) ==
    \/ RunAdapter(c) \/ ProcessCandidate(c) \/ Commit(c)
    \/ StartWait(c) \/ PollWait(c) \/ Tick(c) \/ ApplyResult(c) \/ Release(c)
ManualRun(c) == CheckInput(c) \/ RunSelenium(c) \/ RunScript(c) \/ Release(c)

FairSpec ==
    /\ Init /\ [][Next]_vars
    /\ \A c \in NewsCallers : WF_vars(NewsRun(c))
    /\ \A c \in ManualCallers : WF_vars(ManualRun(c))

(***************************************************************************)
(* Properties of the run guard.                                            *)
(***************************************************************************)
\* C1: among the callers that attempt the non-blocking acquire of a source
\* from the moment its lock is free until it is released, exactly one is
\* granted - the one that holds the lock - and every other one is rejected.
C1_ExactlyOneGranted ==
    \A s \in Sources :
        /\ Cardinality(round[s].granted) <= 1
        /\ round[s].rejected # {} => Cardinality(round[s].granted) = 1
        /\ round[s].granted \cap round[s].rejected = {}
        /\ round[s].granted # {} => scraper_locks[s] \in round[s].granted
        /\ scraper_locks[s] \in Callers => round[s].granted = {scraper_locks[s]}

\* Two callers attempted the same source: one was granted, the other rejected.
C1_Witness ==
    \E s \in Sources :
        /\ Cardinality(round[s].granted) = 1
        /\ round[s].rejected # {}

\* C2: at most one run of a source is inside its guarded section, and that
\* run holds the lock of the source.
RunsInGuard(s) == {c \in Callers : SourceOf(c) = s /\ InGuard(c)}
C2_AtMostOneRunInGuard ==
    \A s \in Sources :
        /\ Cardinality(RunsInGuard(s)) <= 1
        /\ \A c \in RunsInGuard(s) : scraper_locks[s] = c

\* The interval job processes candidates after the warm-up job of the same
\* source was turned away, or one manual request works after the other was.
C2_Witness ==
    \/ /\ pc["biziday_scraper"] = "loop"
       /\ "biziday_initial" \in round["biziday"].rejected
    \/ /\ pc["fb_request_1"] = "selenium"
       /\ "fb_request_2" \in round["facebook"].rejected

\* C3: a caller that holds the lock of its source eventually leaves it free,
\* whichever way its run ends.
C3_GuardEventuallyReleased ==
    \A c \in Callers :
        (scraper_locks[SourceOf(c)] = c) ~> (scraper_locks[SourceOf(c)] = NoHolder)

\* A run that failed is in its finally clause, still holding the lock.
C3_Witness ==
    \E c \in Callers :
        /\ pc[c] = "finally"
        /\ scraper_locks[SourceOf(c)] = c
        /\ ending[c] \in {"script_missing", "exit_code", "timeout", "json_error",
                          "no_input", "exception", "save_failed"}

(***************************************************************************)
(* Properties of the store and of save_articles.                           *)
(***************************************************************************)
\* The committed rows with a given link.
RowsWithLink(l) == {i \in 1..Len(db) : db[i].link = l}

\* C4: the store never holds two news_articles rows with one link, nor two
\* facebook_user_profiles rows with one profile_url.
C4_OneRowPerKey ==
    /\ \A i, j \in 1..Len(db) : db[i].link = db[j].link => i = j
    /\ \A i, j \in 1..Len(profiles) :
          profiles[i].profile_url = profiles[j].profile_url => i = j

\* The run of one source committed a link while the concurrent run of the
\* other source holds a pending insert of the same link.
C4_Witness ==
    /\ \E i \in 1..Len(db) : db[i].link = "l1" /\ db[i].source = "Biziday"
    /\ \E j \in 1..Len(sess["adevarul_scraper"].ins) :
          sess["adevarul_scraper"].ins[j].link = "l1"

C6_AllOrNothing ==
    [][ /\ db' # db =>
              \E c \in NewsCallers :
                  /\ pc[c] = "loop" /\ loop[c].remaining = 0
                  /\ ending'[c] = "committed"
                  /\ db' = Committed(c)
                  /\ sess'[c] = EmptySess
        /\ \A c \in NewsCallers :
              /\ (ending'[c] = "save_failed" /\ ending[c] # "save_failed")
                    => (db' = db /\ sess'[c] = EmptySess /\ pc'[c] = "finally")
              /\ (pc[c] = "finally" /\ pc'[c] # pc[c]) => pc'[c] = Returned(c)
      ]_vars

\* A failed run met a link of which the table holds no row.
C6_Witness ==
    \E c \in NewsCallers :
        /\ pc[c] = "finally" /\ ending[c] = "save_failed"
        /\ \E l \in loop[c].seen : RowsWithLink(l) = {}

\* The row the extractor's caller is updating, after the step.
TargetAfter(c) ==
    IF ext[c].target.kind = "ins"
    THEN sess'[c].ins[ext[c].target.id]
    ELSE sess'[c].upd[ext[c].target.id]

\* C7: when the re-extraction fails, a row that had content still has content.
C7_ContentPreserved ==
    [][ \A c \in NewsCallers :
          (pc[c] = "xret" /\ pc'[c] = "loop" /\ ExtractionFailed(ext[c].result)
             /\ Truthy(ExistingRow(c, ext[c].target).content))
            => Truthy(TargetAfter(c).content)
      ]_vars

\* C9: once the extractor reported a timeout its caller is ready to go on,
\* takes the failure branch whatever the worker stores afterwards, and writes
\* the fields the candidate alone determines.
C9_LateResultDiscarded ==
    /\ [](\A c \in NewsCallers :
            (ext[c].active /\ ext[c].timed_out)
               => (pc[c] = "xret" /\ ExtractionFailed(ext[c].result)
                   /\ ENABLED ApplyResult(c)))
    /\ [][ \A c \in NewsCallers :
             (pc[c] = "xret" /\ ext[c].timed_out /\ pc'[c] = "loop")
               => sess'[c] = SessWrite(c, ext[c].target,
                                BasicUpdate(ExistingRow(c, ext[c].target), ext[c].cand,
                                            ext[c].new_updated_at))
         ]_vars

\* After the timeout the abandoned worker stored content in the result.
C9_Witness ==
    \E c \in NewsCallers :
        /\ ext[c].active /\ ext[c].timed_out
        /\ ext[c].result.content = "F300"

\* C10: a run never counts more checks than max_checks_per_session, and a
\* candidate processed once the cap is reached starts no extraction and
\* changes no row the session already holds.
C10_ChecksCapped ==
    [][ \A c \in NewsCallers :
          /\ loop'[c].checked_count <= UPDATE_CHECK_CONFIG.max_checks_per_session
          /\ (/\ pc[c] = "loop"
              /\ loop[c].checked_count >= UPDATE_CHECK_CONFIG.max_checks_per_session
              /\ loop'[c].remaining < loop[c].remaining)
               => /\ pc'[c] # "startwait"
                  /\ \/ sess'[c] = EmptySess
                     \/ /\ sess'[c].upd = sess[c].upd
                        /\ \A j \in 1..Len(sess[c].ins) : sess'[c].ins[j] = sess[c].ins[j]
      ]_vars

\* Two stored articles were both due for a check; the run checked one and
\* passed the other by.
C10_Witness ==
    \E c \in NewsCallers :
        /\ pc[c] = "loop" /\ loop[c].remaining = 0
        /\ loop[c].checked_count = UPDATE_CHECK_CONFIG.max_checks_per_session
        /\ loop[c].seen = {"l1", "l2"}
        /\ Len(db) = 2
        /\ \A i \in 1..Len(db) : should_check_article_for_updates(db[i], db[i], now)

(***************************************************************************)
(* Properties of extract_with_guaranteed_timeout.                          *)
(***************************************************************************)
\* C8: the extractor is called with min(content_extraction_timeout, 30)
\* seconds; its caller never waits longer than that deadline plus one poll
\* interval after the worker started, nor longer than the start wait, the
\* deadline and one poll interval in all; a timeout is reported exactly one
\* poll interval after the deadline.
C8_ReturnsWithinDeadline ==
    \A c \in NewsCallers :
        ext[c].active =>
            LET x == ext[c] IN
            /\ x.timeout_ticks = Min(env.timeout_seconds, TimeoutCap) * TicksPerSecond
            /\ x.clk <= StartWaitSeconds * TicksPerSecond + x.timeout_ticks + PollTicks
            /\ pc[c] = "wait" => x.clk - x.start_time <= x.timeout_ticks + PollTicks
            /\ x.timed_out =>
                  /\ pc[c] = "xret"
                  /\ x.result.error # NONE
                  /\ x.clk - x.start_time = x.timeout_ticks + PollTicks

\* The deadline is 5 seconds and the worker never left its fetch: the
\* extractor returned a timeout 5.5 seconds after the worker started.
C8_Witness ==
    \E c \in NewsCallers :
        /\ env.timeout_seconds = 5
        /\ pc[c] = "xret" /\ ext[c].timed_out
        /\ worker[c] = "fetch"
        /\ ext[c].result.error = "timeout"
        /\ ext[c].clk - ext[c].start_time = 5 * TicksPerSecond + PollTicks

(***************************************************************************)
(* The change detector on stored articles: one run of a news source over   *)
(* a table that already holds the article the source serves.               *)
(***************************************************************************)
\* The instant of the run, late enough for a stored article to be past the age limit.
Today == (max_article_age_days + 2) * UnitsPerDay
\* The instant d days and h clock units before the run.
Ago(d, h) == Today - (d * UnitsPerDay + h)

\* The stored article: with no publication time, or published seven days,
\* between seven and eight days, or eight days ago; never given an updated_at
\* (an update stored None), or updated three days, one day or no time ago;
\* stored for a source with the primary check frequency or for another one;
\* with or without content.
DetectRows ==
    {[link |-> "l1", title |-> "t1", summary |-> "s1", content |-> c, source |-> s,
      published_at |-> p, updated_at |-> u] :
        c \in {NONE, "A150"}, s \in {"Biziday", "Other"},
        p \in {NoneT, Ago(max_article_age_days, 0), Ago(max_article_age_days, 1),
               Ago(max_article_age_days + 1, 0)},
        u \in {NoneT, Ago(3, 0), Ago(1, 0), Ago(0, 0)}}

\* What the source serves for that link: the fields as stored, with the
\* updated_at it reports missing, malformed, old, recent or ahead of the clock ...
TimeCands ==
    {Cand("l1", "t1", "s1", c, u) :
        c \in {NONE, "A150", "A200"}, u \in {NoneT, BadT, Ago(3, 0), Ago(1, 0), Today + 1}}
\* ... or no newer updated_at, with content of about the stored length or far
\* from it, a summary that differs in case, in blanks, a little or a lot, and
\* a title that differs in blanks or in words.
TextCands ==
    {Cand("l1", t, s, c, u) :
        t \in {"t1", "t1 ", "t2"}, s \in {"s1", "s1 ", "S1", "s1x", "s2"},
        c \in {NONE, "A150", "A155", "A200"}, u \in {NoneT, Ago(3, 0)}}
DetectEnv(cand) ==
    [callers |-> {"biziday_initial"}, probers |-> {}, cands |-> {cand}, max_list |-> 1,
     fresh |-> {"F300"}, metas |-> {NoneT}, timeout_seconds |-> ExtractionTimeout]

InitDetect ==
    \E cand \in TimeCands \cup TextCands, row \in DetectRows :
        /\ env = DetectEnv(cand)
        /\ now = Today
        /\ scraper_locks = [s \in Sources |-> NoHolder]
        /\ pc = [c \in Callers |-> "idle"]
        /\ ending = [c \in Callers |-> "none"]
        /\ round = [s \in Sources |-> EmptyRound]
        /\ probe = [q \in Probers |-> NoProbe]
        /\ db = <<row>>
        /\ profiles = <<>>
        /\ sess = [c \in NewsCallers |-> EmptySess]
        /\ loop = [c \in NewsCallers |-> NoLoop]
        /\ ext = [c \in NewsCallers |-> NoExt]
        /\ worker = [c \in NewsCallers |-> NoWorker]

NextDetect ==
    \/ \E c \in NewsCallers : GuardStep(c)
    \/ \E c \in NewsCallers : NewsStep(c)

SpecDetect == InitDetect /\ [][NextDetect]_vars

\* The run of SpecDetect, the article it finds stored and the candidate it is served.
detect_run == "biziday_initial"
article_data == CHOOSE cand \in env.cands : TRUE
existing_article == db[1]
\* The decisions of lines 378 and 392 on that candidate.
Eligible == should_check_article_for_updates(existing_article, article_data, now)
Changed ==
    article_needs_update(existing_article, article_data, ParseTime(article_data.updated_at))
\* Nothing in the session or in the extractor differs from the state before the run.
Untouched ==
    /\ sess[detect_run] = EmptySess
    /\ ext[detect_run] = NoExt
    /\ worker[detect_run] = NoWorker

\* The candidate equals the stored article on every field article_needs_update
\* compares.
SameFields ==
    /\ ParseTime(article_data.updated_at) = existing_article.updated_at
    /\ Get0(article_data.content) = existing_article.content
    /\ article_data.summary = existing_article.summary
    /\ article_data.title = existing_article.title

\* C11: a candidate that equals the stored article on updated_at, content,
\* summary and title is classified unchanged, and the run writes nothing: its
\* session stays empty, no extraction is started and the table keeps its rows.
C11_IdenticalUntouched ==
    /\ [](SameFields => ~Changed /\ Untouched)
    /\ [][SameFields => db' = db]_vars

\* An eligible stored article was compared with an identical candidate that
\* reports the stored updated_at, and the batch was committed.
C11_Witness ==
    /\ SameFields
    /\ Eligible
    /\ existing_article.updated_at = Ago(3, 0)
    /\ existing_article.content = "A150"
    /\ pc[detect_run] = "finally"
    /\ ending[detect_run] = "committed"
    /\ loop[detect_run].seen = {"l1"}

\* The updated_at the candidate reports, as save_articles parses it (lines 384-389).
new_updated_at == ParseTime(article_data.updated_at)
Newer == NewerThanStored(new_updated_at, existing_article)
\* Both timestamps are there and the candidate's is the stored one or an older one.
EqualOrOlder ==
    /\ TruthyT(new_updated_at)
    /\ TruthyT(existing_article.updated_at)
    /\ new_updated_at <= existing_article.updated_at

\* C12: for an eligible stored article and a candidate whose updated_at is
\* strictly newer, the detector answers changed and the re-extraction is
\* chosen; the iteration calls the extractor for the stored row and assigns
\* nothing before it returns (a thread that cannot be started makes the call
\* raise at once, and the fallback of lines 516-521 is what is written). A
\* candidate whose updated_at is equal or older never has an extraction running.
C12_NewerReextracts ==
    /\ [](Eligible /\ Newer =>
            Changed /\ NeedsReextract(existing_article, new_updated_at))
    /\ [](EqualOrOlder => ext[detect_run] = NoExt /\ worker[detect_run] = NoWorker)
    /\ [][ (/\ pc[detect_run] = "loop"
            /\ loop[detect_run].remaining = 1 /\ loop'[detect_run].remaining = 0
            /\ Eligible /\ Newer) =>
             \/ /\ ext'[detect_run].active
                /\ ext'[detect_run].target = [kind |-> "db", id |-> 1]
                /\ ext'[detect_run].cand = article_data
                /\ worker'[detect_run] = "spawned"
                /\ pc'[detect_run] = "startwait"
                /\ sess' = sess
             \/ /\ ext' = ext /\ worker' = worker
                /\ sess'[detect_run].upd =
                     (1 :> BasicUpdate(existing_article, article_data, new_updated_at))
      ]_vars

\* The extractor was called for an eligible article whose candidate is newer
\* and the session is still empty.
C12_Witness ==
    /\ Eligible /\ Newer
    /\ pc[detect_run] = "startwait"
    /\ ext[detect_run].active
    /\ worker[detect_run] = "spawned"
    /\ sess[detect_run] = EmptySess

\* Both have content and the lengths differ by more than 5% of the stored length.
LengthsDiffer ==
    /\ Truthy(Get0(article_data.content))
    /\ Truthy(existing_article.content)
    /\ Abs(ContentLen(article_data.content) - ContentLen(existing_article.content)) * 100
         > 5 * ContentLen(existing_article.content)

\* The commit of a batch in which the candidate was processed.
CommitOfIteration ==
    /\ pc[detect_run] = "loop"
    /\ loop[detect_run].remaining = 0
    /\ loop[detect_run].seen = {"l1"}
    /\ ending'[detect_run] = "committed"

\* C13: for an eligible stored article whose candidate's updated_at is not
\* newer, when both have content and the lengths differ by more than 5%, the
\* detector answers changed, no extraction is started, and the committed row
\* holds the candidate's content.
C13_LengthChangeStored ==
    /\ [](Eligible /\ ~Newer /\ LengthsDiffer =>
             /\ Changed
             /\ ~NeedsReextract(existing_article, new_updated_at)
             /\ ext[detect_run] = NoExt)
    /\ [][ CommitOfIteration /\ Eligible /\ ~Newer /\ LengthsDiffer =>
             db'[1].content = article_data.content ]_vars


\* C14: a stored article with no updated_at passes the eligibility gate
\* whatever its age and source, and the detector answers changed for every
\* candidate, before any comparison of content, summary or title.
C14_FirstEnrichment ==
    ~TruthyT(existing_article.updated_at) => Eligible /\ Changed

\* The stored article was published more than max_article_age_days ago.
PastAgeLimit ==
    /\ TruthyT(existing_article.published_at)
    /\ now - existing_article.published_at > max_article_age_days * UnitsPerDay
\* The stored article's age, in completed days, is more than max_article_age_days.
PastAgeLimitInDays ==
    /\ TruthyT(existing_article.published_at)
    /\ (now - existing_article.published_at) \div UnitsPerDay > max_article_age_days
\* The stored article was updated more recently than the floor of its source.
CheckedRecently ==
    (now - existing_article.updated_at) * HoursPerDay <
        UnitsPerDay * (IF existing_article.source \in {"Adevarul", "Biziday"}
                       THEN check_frequency_primary
                       ELSE check_frequency_default)

\* C15: a stored article that has an updated_at and whose age in completed
\* days exceeds the age limit, or that was updated more recently than the
\* floor of its source, is left as it is by the run and is not counted
\* against the cap, whatever the candidate holds.
C15_GatedUntouched ==
    /\ [](TruthyT(existing_article.updated_at) /\ (PastAgeLimitInDays \/ CheckedRecently)
            => ~Eligible /\ Untouched /\ loop[detect_run].checked_count = 0)
    /\ [][TruthyT(existing_article.updated_at) /\ (PastAgeLimitInDays \/ CheckedRecently)
            => db' = db]_vars

\* C15 as stated: the same for every stored article published more than
\* max_article_age_days ago, however little more.
C15_OlderThanLimitUntouched ==
    /\ [](TruthyT(existing_article.updated_at) /\ (PastAgeLimit \/ CheckedRecently)
            => ~Eligible /\ Untouched /\ loop[detect_run].checked_count = 0)
    /\ [][TruthyT(existing_article.updated_at) /\ (PastAgeLimit \/ CheckedRecently)
            => db' = db]_vars

\* A batch was committed whose candidate reports a newer updated_at for an
\* article that is past the age limit and was last updated three days ago.
C15_Witness ==
    /\ PastAgeLimitInDays
    /\ existing_article.updated_at = Ago(3, 0)
    /\ Newer
    /\ pc[detect_run] = "finally"
    /\ ending[detect_run] = "committed"
    /\ loop[detect_run].seen = {"l1"}

\* The timestamp rules of lines 637-650: a newer updated_at, or a first one.
TimestampRule ==
    \/ Newer
    \/ TruthyT(new_updated_at) /\ ~TruthyT(existing_article.updated_at)
\* The trimmed summaries, compared without regard to case, are less than 80% similar.
SummariesFar ==
    SimilarityPercent(Lower(Strip(existing_article.summary)),
                      Lower(Strip(article_data.summary))) < 80
TitlesDiffer == Strip(article_data.title) # Strip(existing_article.title)

\* C16: for an eligible stored article on which neither the timestamp rules
\* nor the content-length rule fire, the detector answers changed exactly when
\* the summaries are less than 80% similar or, failing that, the trimmed
\* titles differ; a summary that is far enough decides alone, whatever the title.
C16_SummaryThenTitle ==
    Eligible /\ ~TimestampRule /\ ~LengthsDiffer =>
        /\ SummariesFar => Changed
        /\ ~SummariesFar /\ TitlesDiffer => Changed
        /\ ~SummariesFar /\ ~TitlesDiffer => ~Changed

\* The detector was asked about a candidate whose summary is close to the
\* stored one and whose title has other words, with neither the timestamp nor
\* the content-length rule firing.
C16_Witness ==
    /\ Eligible /\ ~TimestampRule /\ ~LengthsDiffer
    /\ article_data.summary = "s1x"
    /\ article_data.title = "t2"
    /\ existing_article.content = "A150" /\ article_data.content = "A155"
    /\ pc[detect_run] = "loop"
    /\ loop[detect_run].remaining = 0
    /\ loop[detect_run].checked_count = 1

(***************************************************************************)
(* Properties of a batch.                                                  *)
(***************************************************************************)
\* C17: an error raised while one candidate is processed ends that candidate
\* only: the iteration leaves the run in its loop (or in the extractor it
\* called), with every insert and update the session had gathered, so that the
\* rest of the list is processed and the batch reaches its commit.
C17_ErrorSkipsOneCandidate ==
    [][ \A c \in NewsCallers :
          pc[c] = "loop" /\ loop[c].remaining > 0 =>
            /\ pc'[c] \in {"loop", "startwait"}
            /\ Len(sess'[c].ins) >= Len(sess[c].ins)
            /\ DOMAIN sess[c].upd \subseteq DOMAIN sess'[c].upd
      ]_vars

(***************************************************************************)
(* The candidates as the adapters build them.                              *)
(***************************************************************************)
\* What an adapter scraped for one article: a title, the summary of the
\* listing (none, short or long), the content it extracted (none, short or
\* long) and the updated_at of the page.
RawItems ==
    {[link |-> "l1", title |-> "t1", summary |-> s, content |-> c, updated_at |-> u] :
        s \in {"", "s0", "s1"}, c \in {NONE, "A50", "A150"}, u \in {NoneT, 0, 1}}

\* biziday_scraper.py:232-240: the article_data appended for a scraped item.
AdapterArticle(raw) ==
    Cand(raw.link, raw.title, final_summary(raw.title, raw.summary, raw.content),
         raw.content, raw.updated_at)

AdapterEnv ==
    [callers |-> {"biziday_scraper"}, probers |-> {},
     cands |-> {AdapterArticle(raw) : raw \in RawItems},
     max_list |-> 1, fresh |-> {NONE, "A50", "F300"}, metas |-> {NoneT},
     timeout_seconds |-> ExtractionTimeout]

InitAdapter == InitWith(AdapterEnv)

SpecAdapter == InitAdapter /\ [][NextExtract]_vars

\* C18: every stored article has a summary that is neither None nor empty:
\* the candidate built for an item scraped without content and without a
\* usable summary carries a summary taken from its title, and no insert or
\* update, re-extraction included, leaves a row with a None or empty summary.
C18_SummaryNeverEmpty ==
    LET AllRows ==
            {db[i] : i \in 1..Len(db)}
            \cup UNION {{sess[c].ins[j] : j \in 1..Len(sess[c].ins)} : c \in NewsCallers}
            \cup UNION {{sess[c].upd[i] : i \in DOMAIN sess[c].upd} : c \in NewsCallers}
    IN  /\ \A row \in AllRows : Truthy(row.summary)
        /\ \A raw \in RawItems :
              ~Truthy(raw.content) /\ SummaryLen(raw.summary) <= 20
                  => AdapterArticle(raw).summary = raw.title

\* A row stored without content, with the summary taken from its title, is
\* being updated in a later run and keeps a summary.
C18_Witness ==
    /\ Len(db) = 1
    /\ db[1].summary = "t1"
    /\ db[1].content = NONE
    /\ \E c \in NewsCallers :
          /\ pc[c] = "loop"
          /\ 1 \in DOMAIN sess[c].upd
          /\ sess[c].upd[1].content = "A50"
          /\ Truthy(sess[c].upd[1].summary)

\* C19: when the re-extraction made for a candidate with a newer updated_at
\* times out, the row is still given the candidate's updated_at, and the
\* committed batch stores it.
C19_TimeoutStillAdvances ==
    /\ [][ (pc[detect_run] = "xret" /\ pc'[detect_run] = "loop"
              /\ ext[detect_run].timed_out)
           => /\ ext[detect_run].new_updated_at > existing_article.updated_at
              /\ sess'[detect_run].upd[1].updated_at = ext[detect_run].new_updated_at
       ]_vars
    /\ [][ CommitOfIteration /\ Eligible /\ Newer
             => db'[1].updated_at = new_updated_at ]_vars

\* The extractor gave up on its deadline for a candidate with a newer
\* updated_at, and nothing was written yet.
C19_Witness ==
    /\ Eligible /\ Newer
    /\ pc[detect_run] = "xret"
    /\ ext[detect_run].timed_out
    /\ ext[detect_run].result.error = "timeout"
    /\ sess[detect_run] = EmptySess

(***************************************************************************)
(* The run guard beside get_scraper_status().                              *)
(***************************************************************************)
\* C20: a request is granted exactly when no run of its source is in
\* progress: a request that is turned away (a manual request answered
\* 'already running', a job that returns without running) found a run in
\* progress, also while get_scraper_status() executes; a request that is
\* granted found none.
C20_GrantedIffIdle ==
    [][ LET RunInProgress(s) == scraper_locks[s] \in Callers IN
        \A c \in Callers :
          /\ pc[c] = "idle" /\ pc'[c] \in {"rejected", "done"}
               => RunInProgress(SourceOf(c))
          /\ pc[c] = "idle" /\ pc'[c] \in {"input", "adapter"}
               => ~RunInProgress(SourceOf(c))
      ]_vars

(***************************************************************************)
(* get_scraper_status() called from several threads at once, beside the    *)
(* recurring job of one news source.                                       *)
(***************************************************************************)
InitStatus ==
    InitWith(GuardEnv({"biziday_scraper"}, Probers, {Cand("l1", "t1", "s1", "A150", NoneT)}))

\* The candidate carries no updated_at, so no run starts the extractor.
NextStatus ==
    \/ \E c \in NewsCallers : GuardStep(c)
    \/ \E c \in NewsCallers : RunAdapter(c) \/ ProcessCandidate(c) \/ Commit(c)
    \/ \E q \in Probers : ProbeStep(q)

SpecStatus == InitStatus /\ [][NextStatus]_vars

\* C21: whenever a status call records 'running' for a source, a run of that
\* source holds the lock at that moment, and whenever it records 'idle', no
\* run does - also while another status call is executing.
C21_StatusTellsTheGuard ==
    [][ \A q \in Probers : \A s \in Sources :
          (s \notin DOMAIN probe[q].status /\ s \in DOMAIN probe'[q].status) =>
             /\ probe'[q].status[s] = "running" => scraper_locks[s] \in Callers
             /\ probe'[q].status[s] = "idle" => scraper_locks[s] \notin Callers
      ]_vars

(***************************************************************************)
(* Requests that are turned away, and runs whose adapter fails.            *)
(***************************************************************************)
\* C22: a request that finds the lock of its source taken returns at once:
\* it enters no part of the run, the table, the profiles, the sessions and the
\* extractor are as before, and the lock is still held by whoever held it -
\* also when the manual request then returns its error result.
C22_RejectedIsDropped ==
    [][ \A c \in Callers :
          /\ (TryBegin(c) /\ ~LockFree(SourceOf(c))) =>
               /\ scraper_locks' = scraper_locks
               /\ scraper_locks'[SourceOf(c)] # NoHolder
               /\ pc'[c] \in {"rejected", "idle", "done"}
               /\ \A d \in Callers \ {c} : pc'[d] = pc[d]
               /\ db' = db /\ profiles' = profiles /\ sess' = sess
               /\ loop' = loop /\ ext' = ext /\ worker' = worker
          /\ (pc[c] = "rejected" /\ pc'[c] # "rejected") =>
               /\ pc'[c] = "idle"
               /\ scraper_locks' = scraper_locks
               /\ db' = db /\ profiles' = profiles /\ sess' = sess
      ]_vars

\* A manual request was turned away and is about to return its error result
\* while the request that was granted is still inside the scraper.
C22_Witness ==
    /\ pc["fb_request_2"] = "rejected"
    /\ ending["fb_request_2"] = "busy"
    /\ scraper_locks["facebook"] = "fb_request_1"
    /\ pc["fb_request_1"] = "script"

\* C23: a run whose adapter step fails (no script, a non-zero exit code, a
\* timeout or another exception, no output, output that is not JSON or not a
\* list) goes from the adapter straight to its finally clause with nothing
\* written or pending, and the finally clause leaves the lock free with the
\* table as it was, so that the next request of the source finds it free.
C23_AdapterFailureAbortsCleanly ==
    /\ [](\A c \in NewsCallers :
            pc[c] = "finally" /\ ending[c] \in AdapterFailures =>
               /\ sess[c] = EmptySess
               /\ ext[c] = NoExt
               /\ scraper_locks[SourceOf(c)] = c)
    /\ [][ \A c \in NewsCallers :
             /\ (pc[c] = "adapter" /\ pc'[c] # "adapter" /\ pc'[c] # "loop") =>
                  /\ pc'[c] = "finally"
                  /\ ending'[c] \in AdapterFailures
                  /\ db' = db /\ profiles' = profiles /\ sess' = sess
             /\ (pc[c] = "finally" /\ ending[c] \in AdapterFailures /\ pc'[c] # "finally") =>
                  /\ scraper_locks'[SourceOf(c)] = NoHolder
                  /\ pc'[c] = Returned(c)
                  /\ db' = db /\ profiles' = profiles /\ sess' = sess
         ]_vars

\* The recurring job's adapter printed something that is not a list, after an
\* earlier run had stored an article: the run is in its finally clause.
C23_Witness ==
    /\ pc["adevarul_scraper"] = "finally"
    /\ ending["adevarul_scraper"] = "not_list"
    /\ Len(db) = 1
    /\ pc["adevarul_initial"] = "done"

(***************************************************************************)
(* start_scheduler_in_context: the jobs the scheduler registers.           *)
(***************************************************************************)
\* The news_sources table as get_scraping_config finds it: unreadable, or with
\* each source stored with scraping enabled or with scraping disabled.
SourceTables ==
    {[ok |-> FALSE, sources |-> [s \in Sources |-> "disabled"]]}
    \cup {[ok |-> TRUE, sources |-> f] : f \in [Sources -> {"enabled", "disabled"}]}

\* Lines 955-1009: the rows with scraping_enabled=True, keyed by normalized
\* name; the hardcoded configuration when there is none or the query fails.
get_scraping_config(table) ==
    LET rows == {s \in Sources : table.ok /\ table.sources[s] = "enabled"}
    IN  IF rows # {} THEN [s \in rows |-> [enabled |-> TRUE]]
        ELSE [s \in Sources |-> [enabled |-> TRUE]]

\* Lines 1043-1100: the ids of the jobs added to the scheduler.
start_scheduler_registering_facebook(config) ==
    {s \o "_scraper" : s \in {n \in DOMAIN config : config[n].enabled}}
    \cup {"biziday_initial", "adevarul_initial"}
start_scheduler_in_context(config) ==
    {s \o "_scraper" : s \in {n \in DOMAIN config : config[n].enabled /\ n # "facebook"}}
    \cup {"biziday_initial", "adevarul_initial"}

\* The registered jobs and one thread of the manual endpoint; the news sources
\* serve no article.
SchedEnv(table) ==
    [callers |-> start_scheduler_in_context(get_scraping_config(table)) \cup {"fb_request_1"},
     jobs |-> start_scheduler_in_context(get_scraping_config(table)),
     table |-> table,
     probers |-> {}, cands |-> {}, max_list |-> 0,
     fresh |-> {}, metas |-> {}, timeout_seconds |-> ExtractionTimeout]

InitSched == \E table \in SourceTables : InitWith(SchedEnv(table))

\* With an empty list save_articles goes straight to its commit, and a single
\* request thread is never turned away.
NextSched ==
    \/ \E c \in Callers : GuardStep(c)
    \/ \E c \in NewsCallers : RunAdapter(c) \/ Commit(c)
    \/ \E c \in ManualCallers : CheckInput(c) \/ RunSelenium(c) \/ RunScript(c)

SpecSched == InitSched /\ [][NextSched]_vars

\* C24: whatever the table says about facebook, every registered job is a
\* recurring or a warm-up job of biziday or adevarul; the facebook lock is only
\* ever held by a request of the manual endpoint, and such a request is inside
\* the scraper only while it holds that lock.
C24_FacebookOnlyOnRequest ==
    /\ env.jobs \subseteq NewsCallers
    /\ \A j \in env.jobs : SourceOf(j) # "facebook"
    /\ scraper_locks["facebook"] # NoHolder => scraper_locks["facebook"] \in ManualCallers
    /\ \A c \in ManualCallers : InGuard(c) => scraper_locks["facebook"] = c

\* The table enables facebook; a manual request is inside the Selenium
\* scraper while a recurring job and a warm-up job are running.
C24_Witness ==
    /\ env.table.ok
    /\ env.table.sources["facebook"] = "enabled"
    /\ pc["fb_request_1"] = "selenium"
    /\ scraper_locks["facebook"] = "fb_request_1"
    /\ pc["biziday_scraper"] = "loop"
    /\ pc["adevarul_initial"] = "adapter"

\* C28: no job of a source that the table stores with scraping disabled ever
\* enters a run: neither its recurring job nor its warm-up job is granted the
\* lock of the source.
C28_DisabledNeverRuns ==
    \A c \in NewsCallers :
        (env.table.ok /\ env.table.sources[SourceOf(c)] = "disabled") =>
            ~InGuard(c) /\ scraper_locks[SourceOf(c)] # c

(***************************************************************************)
(* The result of a manual request.                                         *)
(***************************************************************************)
\* C25: a manual request that is about to return the success result for a
\* created profile has left that profile in the table; a request that was
\* turned away, had no input or whose scraper failed returns an error result.
C25_SuccessMeansCommitted ==
    \A c \in ManualCallers :
        /\ (pc[c] = "finally" /\ ending[c] = "success_created") =>
              \E u \in ProfileUrls : ProfileIds(u) # {}
        /\ pc[c] = "rejected" => ending[c] = "busy"
        /\ (pc[c] = "finally" /\ ending[c] \notin {"success_created", "success_updated",
                                                   "success_refreshed"}) =>
              ending[c] \in {"no_input", "selenium_failed"} \cup ScriptFailures

\* C27: a manual request leaves the Selenium scraper either with a profile
\* stored (a success result) or for the script-based scraper: it reports no
\* failure before the script was tried.
C27_SeleniumFailureFallsBack ==
    [][ \A c \in ManualCallers :
          (pc[c] = "selenium" /\ pc'[c] # "selenium") =>
             \/ ending'[c] \in {"success_created", "success_updated", "success_refreshed"}
             \/ pc'[c] = "script"
      ]_vars

(***************************************************************************)
(* What an update leaves in the stored article.                            *)
(***************************************************************************)
\* C29: the updated_at of a committed row, once it holds a time, is never
\* replaced by None or by an earlier time.
C29_UpdatedAtNeverRegresses ==
    [][ \A i \in 1..Len(db) :
          TruthyT(db[i].updated_at) =>
             /\ i \in 1..Len(db')
             /\ TruthyT(db'[i].updated_at)
             /\ db'[i].updated_at >= db[i].updated_at
      ]_vars

\* C30: when the iteration on an eligible stored article answers changed and
\* does not call the extractor, the article it leaves (the stored row with the
\* session's pending update) no longer differs from the candidate:
\* article_needs_update answers unchanged on it.
C30_UpdatesConverge ==
    [][ (/\ pc[detect_run] = "loop"
         /\ loop[detect_run].remaining = 1 /\ loop'[detect_run].remaining = 0
         /\ Eligible /\ Changed
         /\ ~NeedsReextract(existing_article, new_updated_at)) =>
           LET after == IF 1 \in DOMAIN sess'[detect_run].upd
                        THEN sess'[detect_run].upd[1]
                        ELSE db[1]
           IN  ~article_needs_update(after, article_data, new_updated_at)
      ]_vars

(***************************************************************************)
(* The recurring jobs under fair scheduling: a thread inside a run or      *)
(* inside get_scraper_status() keeps executing, and the interval trigger   *)
(* keeps firing at times that do not depend on the lock, so a tick that    *)
(* can be granted again and again is granted.                              *)
(***************************************************************************)
\* Lines 19, 75: the tick of a job whose acquire succeeds.
GrantedTick(c) == TryBegin(c) /\ LockFree(SourceOf(c))

FairTicks ==
    /\ Init /\ [][Next]_vars
    /\ \A c \in NewsCallers : WF_vars(NewsRun(c))
    /\ \A c \in ManualCallers : WF_vars(ManualRun(c))
    /\ \A q \in Probers : WF_vars(ProbeRelease(q))
    /\ \A c \in IntervalJobs : SF_vars(GrantedTick(c))

\* C26: a registered recurring job that was turned away because a run of its
\* source held the lock is later granted the lock, and every registered
\* recurring job holds the lock of its source again and again.
C26_DroppedTickIsRetried ==
    \A c \in IntervalJobs :
        /\ (c \in round[SourceOf(c)].rejected) ~> (scraper_locks[SourceOf(c)] = c)
        /\ []<>(c \notin env.callers \/ scraper_locks[SourceOf(c)] = c)

\* A tick of the recurring job was dropped while the warm-up job of the
\* source is in its run.
C26_Witness ==
    /\ "adevarul_scraper" \in round["adevarul"].rejected
    /\ scraper_locks["adevarul"] = "adevarul_initial"
    /\ pc["adevarul_initial"] = "loop"
    /\ pc["adevarul_scraper"] = "idle"

====
